---- MODULE Spec2Model ----
(***************************************************************************)
(* Model of src/transaction_lineage_analyzer.py: the Transaction record,   *)
(* the BatchLineage node and the TransactionLineageAnalyzer engine (CSV    *)
(* ingestion, the two-pass lineage build, the point and recursive queries  *)
(* and the exports).                                                       *)
(*                                                                         *)
(* Modelling conventions                                                   *)
(*  - A Python dict is a sequence of entries in insertion order: the order *)
(*    is observable through .items() (export rows, JSON snapshot, children *)
(*    of the lineage tree).                                                *)
(*  - A Python set iterated by a for loop yields its members in an order   *)
(*    fixed by the string hashes of the process (hash randomisation): the  *)
(*    order is a nondeterministic choice among the permutations.           *)
(*  - Volumes are Python floats in the code. Here they are integers kept   *)
(*    to MantissaBits significant binary digits: float() and += round to   *)
(*    the nearest such number, ties to even, as binary64 does with 53.     *)
(*  - The transaction lists of a BatchLineage hold references to the         *)
(*    Transaction objects of self.transactions: here, their positions in   *)
(*    that list.                                                           *)
(*  - A CSV field is a sequence of one-character strings, so that float()  *)
(*    is modelled by what it parses.                                       *)
(*  - Two analyzer instances (runs) are kept side by side, so that claims  *)
(*    comparing two ingestion runs are state predicates.                   *)
(***************************************************************************)
EXTENDS Integers, Sequences, FiniteSets, TLC

VARIABLES
    file,       \* file[i]: the rows csv.DictReader yielded to analyzer i
    an,         \* an[i]: analyzer instance i (transactions, batch_lineages, status)
    result,     \* what the last query or export call returned
    stack,      \* call stack of get_full_lineage_tree (one frame per active call)
    tree        \* value returned by the outermost get_full_lineage_tree call

vars == <<file, an, result, stack, tree>>

----------------------------------------------------------------------------
(* Bounds of the model *)

\* rows per ledger file
MaxRows == 2
\* significant binary digits of a float of the model (53 in the code)
MantissaBits == 3
\* rows per ledger file in the lineage-tree specification
MaxTreeRows == 3
\* rows per ledger file in the export specification
MaxExportRows == 3
\* rows per ledger file in the query specification
MaxQueryRows == 2
\* rows per ledger file in the build specification
MaxBuildRows == 2
\* rows per ledger file in the specification of reordered ledgers
MaxPermRows == 3
\* rows of the first ledger, and of all ledgers together, when an analyzer
\* loads more than once
MaxFirstRows == 1
MaxReloadRows == 3
\* rows per ledger file in the specification of records into the same batch
MaxSelfRows == 2

Runs == {1, 2}

(* Batch names used in the ledgers; "" is the empty CSV cell, "Z" is a name *)
(* no ledger uses.                                                          *)
BatchNames == {"A", "B"}
TreeNames == {"A", "B", "C"}
UnknownName == "Z"

OpTypes == {"On-Hand", "Transfer", "Blend", "Receipt", "Adjustment", "Bogus"}

----------------------------------------------------------------------------
(* Generic helpers *)

RECURSIVE SeqsUpTo(_, _)
\* all sequences over S of length <= n
SeqsUpTo(S, n) ==
    IF n = 0 THEN {<<>>}
    ELSE LET shorter == SeqsUpTo(S, n - 1)
         IN  shorter \cup {Append(s, x) : s \in {t \in shorter : Len(t) = n - 1}, x \in S}

Range(s) == {s[i] : i \in 1..Len(s)}

\* the orders in which a for loop may iterate a set
Perms(S) ==
    {p \in [1..Cardinality(S) -> S] : \A i, j \in 1..Cardinality(S) : p[i] = p[j] => i = j}

----------------------------------------------------------------------------
(* CSV fields and float() *)

Digits == {"0", "1", "2", "3", "4", "5", "6", "7", "8", "9"}

DigitVal(c) ==
    CASE c = "0" -> 0 [] c = "1" -> 1 [] c = "2" -> 2 [] c = "3" -> 3 [] c = "4" -> 4
      [] c = "5" -> 5 [] c = "6" -> 6 [] c = "7" -> 7 [] c = "8" -> 8 [] c = "9" -> 9

\* a cell of the row mapping: text, a key the header does not have ("absent"),
\* or the None csv.DictReader fills in for a row shorter than the header
Text(chars) == [kind |-> "text", chars |-> chars]
Absent == [kind |-> "absent", chars |-> <<>>]
NoneCell == [kind |-> "none", chars |-> <<>>]

RECURSIVE LStrip(_)
LStrip(s) == IF s # <<>> /\ Head(s) = " " THEN LStrip(Tail(s)) ELSE s

RECURSIVE RStrip(_)
RStrip(s) == IF s # <<>> /\ s[Len(s)] = " " THEN RStrip(SubSeq(s, 1, Len(s) - 1)) ELSE s

RECURSIVE Ulp(_, _)
\* the spacing of the floats around the magnitude n: the least power of two u,
\* from u on, with n < 2^MantissaBits * u
Ulp(n, u) == IF n < (2 ^ MantissaBits) * u THEN u ELSE Ulp(n, 2 * u)

\* the float nearest to the number n, ties to the even mantissa
RoundFloat(n) ==
    LET m == IF n < 0 THEN 0 - n ELSE n
        u == Ulp(m, 1)
        q == m \div u
        r == m % u
        up == 2 * r > u \/ (2 * r = u /\ q % 2 = 1)
        rounded == (IF up THEN q + 1 ELSE q) * u
    IN  IF n < 0 THEN 0 - rounded ELSE rounded

\* x + y on floats
FloatAdd(x, y) == RoundFloat(x + y)

RECURSIVE DigitsValue(_, _)
\* value of a digit string, most significant digit first
DigitsValue(s, acc) ==
    IF s = <<>> THEN acc ELSE DigitsValue(Tail(s), 10 * acc + DigitVal(Head(s)))

\* mutant of ParseText: text that is not a number is read as 0
ParseText_or_zero(chars) ==
    LET s == RStrip(LStrip(chars))
        signed == s # <<>> /\ Head(s) \in {"-", "+"}
        body == IF signed THEN Tail(s) ELSE s
        okay == body # <<>> /\ \A i \in 1..Len(body) : body[i] \in Digits
    IN  [ok |-> TRUE,
         val |-> IF ~okay THEN 0
                 ELSE RoundFloat(IF signed /\ Head(s) = "-" THEN 0 - DigitsValue(body, 0)
                                 ELSE DigitsValue(body, 0))]

\* float(text) for integer literals: surrounding blanks stripped, an optional
\* sign, then one or more digits; anything else raises ValueError
ParseText(chars) ==
    LET s == RStrip(LStrip(chars))
        signed == s # <<>> /\ Head(s) \in {"-", "+"}
        body == IF signed THEN Tail(s) ELSE s
        okay == body # <<>> /\ \A i \in 1..Len(body) : body[i] \in Digits
    IN  IF ~okay THEN [ok |-> FALSE, val |-> 0]
        ELSE [ok |-> TRUE,
              val |-> RoundFloat(IF signed /\ Head(s) = "-" THEN 0 - DigitsValue(body, 0)
                                 ELSE DigitsValue(body, 0))]

\* float(data.get(key, 0)): an absent key gives float(0); None raises TypeError
ParseFloat(cell) ==
    CASE cell.kind = "absent" -> [ok |-> TRUE, val |-> 0]
      [] cell.kind = "none" -> [ok |-> FALSE, val |-> 0]
      [] OTHER -> ParseText(cell.chars)

----------------------------------------------------------------------------
(* class Transaction *)

\* whether Transaction(row) returns (neither float() raises)
TransactionOk(row) == ParseFloat(row.net).ok /\ ParseFloat(row.loss_gain).ok

\* Transaction(row); idx is the object's position in self.transactions (its
\* identity: two rows with equal fields are two objects)
Transaction(row, idx) ==
    [idx |-> idx,
     op_type |-> row.op_type,
     from_batch |-> row.from_batch,
     to_batch |-> row.to_batch,
     net |-> ParseFloat(row.net).val,
     loss_gain_amount |-> ParseFloat(row.loss_gain).val]

----------------------------------------------------------------------------
(* dict helpers: a dict is a sequence of [k, v] entries in insertion order *)

DictKeys(d) == {d[i].k : i \in 1..Len(d)}

DictIndex(d, key) == CHOOSE i \in 1..Len(d) : d[i].k = key

DictGet(d, key) == d[DictIndex(d, key)].v

\* d[key] = value: an existing key keeps its position
DictSet(d, key, value) ==
    IF key \in DictKeys(d)
    THEN [d EXCEPT ![DictIndex(d, key)] = [k |-> key, v |-> value]]
    ELSE Append(d, [k |-> key, v |-> value])

----------------------------------------------------------------------------
(* class BatchLineage *)

BatchLineage(batch_name) ==
    [batch_name |-> batch_name,
     contributing_batches |-> <<>>,
     contributing_transactions |-> <<>>,
     outgoing_transactions |-> <<>>,
     current_volume |-> 0,
     is_on_hand |-> FALSE,
     has_left_inventory |-> FALSE]

\* mutant of add_incoming_transaction: a later record overwrites the contribution
add_incoming_overwrite(lineage, transaction, gallons) ==
    LET source_batch == transaction.from_batch
        contrib ==
            IF source_batch # "" /\ source_batch # lineage.batch_name
            THEN DictSet(lineage.contributing_batches, source_batch, gallons)
            ELSE lineage.contributing_batches
    IN  [lineage EXCEPT
            !.contributing_batches = contrib,
            !.contributing_transactions = Append(@, transaction.idx)]

\* mutant of add_incoming_transaction: the source is not compared with the
\* batch's own name
add_incoming_unguarded(lineage, transaction, gallons) ==
    LET source_batch == transaction.from_batch
        before ==
            IF source_batch \in DictKeys(lineage.contributing_batches)
            THEN lineage.contributing_batches
            ELSE DictSet(lineage.contributing_batches, source_batch, 0)
        contrib ==
            IF source_batch # ""
            THEN DictSet(before, source_batch, FloatAdd(DictGet(before, source_batch), gallons))
            ELSE lineage.contributing_batches
    IN  [lineage EXCEPT
            !.contributing_batches = contrib,
            !.contributing_transactions = Append(@, transaction.idx)]

add_incoming_transaction(lineage, transaction, gallons) ==
    LET source_batch == transaction.from_batch
        before ==
            IF source_batch \in DictKeys(lineage.contributing_batches)
            THEN lineage.contributing_batches
            ELSE DictSet(lineage.contributing_batches, source_batch, 0)
        contrib ==
            IF source_batch # "" /\ source_batch # lineage.batch_name
            THEN DictSet(before, source_batch, FloatAdd(DictGet(before, source_batch), gallons))
            ELSE lineage.contributing_batches
    IN  [lineage EXCEPT
            !.contributing_batches = contrib,
            !.contributing_transactions = Append(@, transaction.idx)]

\* mutant of add_outgoing_transaction: the record is put at the head of the list
add_outgoing_prepend(lineage, transaction) ==
    [lineage EXCEPT !.outgoing_transactions = <<transaction.idx>> \o @]

add_outgoing_transaction(lineage, transaction) ==
    [lineage EXCEPT !.outgoing_transactions = Append(@, transaction.idx)]

----------------------------------------------------------------------------
(* class TransactionLineageAnalyzer: construction and ingestion *)

\* TransactionLineageAnalyzer(): no ledger loaded yet
NewAnalyzer == [transactions |-> <<>>, batch_lineages |-> <<>>, status |-> "new"]

\* mutant of all_batches: only the destinations are collected
all_batches_destinations(transactions) ==
    {transactions[i].to_batch : i \in {j \in 1..Len(transactions) : transactions[j].to_batch # ""}}

\* first pass of _build_lineage: the set of batch names of the ledger
all_batches(transactions) ==
    {transactions[i].from_batch : i \in {j \in 1..Len(transactions) : transactions[j].from_batch # ""}}
    \cup {transactions[i].to_batch : i \in {j \in 1..Len(transactions) : transactions[j].to_batch # ""}}

RECURSIVE create_lineages_keep(_, _, _)
\* mutant of create_lineages: a batch that already has a lineage keeps it
create_lineages_keep(batch_lineages, order, i) ==
    IF i > Len(order) THEN batch_lineages
    ELSE create_lineages_keep(
             IF order[i] \in DictKeys(batch_lineages) THEN batch_lineages
             ELSE DictSet(batch_lineages, order[i], BatchLineage(order[i])),
             order, i + 1)

RECURSIVE create_lineages(_, _, _)
\* for batch in all_batches: self.batch_lineages[batch] = BatchLineage(batch),
\* the set iterated in the order given
create_lineages(batch_lineages, order, i) ==
    IF i > Len(order) THEN batch_lineages
    ELSE create_lineages(DictSet(batch_lineages, order[i], BatchLineage(order[i])), order, i + 1)

\* mutant of mark_left: a Receipt counts as a departure too
mark_left_any(lineage, trans) == [lineage EXCEPT !.has_left_inventory = TRUE]

\* if trans.op_type != 'Receipt': has_left_inventory = True
mark_left(lineage, trans) ==
    IF trans.op_type # "Receipt" THEN [lineage EXCEPT !.has_left_inventory = TRUE] ELSE lineage

\* mutant of set_on_hand: On-Hand volumes accumulate
set_on_hand_accumulate(lineage, trans) ==
    [lineage EXCEPT !.is_on_hand = TRUE, !.current_volume = @ + trans.net]

\* mutant of set_on_hand: a batch counted on hand is taken as not having left
set_on_hand_returned(lineage, trans) ==
    [lineage EXCEPT !.is_on_hand = TRUE, !.current_volume = trans.net,
                    !.has_left_inventory = FALSE]

\* the On-Hand branch: is_on_hand = True, current_volume = trans.net
set_on_hand(lineage, trans) ==
    [lineage EXCEPT !.is_on_hand = TRUE, !.current_volume = trans.net]

\* mutant of apply_transaction: the source side is handled only when the
\* destination side is not (elif instead of if)
apply_transaction_elif(batch_lineages, trans) ==
    LET to_batch == trans.to_batch
        from_batch == trans.from_batch
        keys == DictKeys(batch_lineages)
    IN  CASE trans.op_type = "On-Hand" ->
                IF to_batch \in keys
                THEN DictSet(batch_lineages, to_batch, set_on_hand(DictGet(batch_lineages, to_batch), trans))
                ELSE batch_lineages
          [] trans.op_type \in {"Transfer", "Blend", "Receipt"} ->
                IF to_batch # "" /\ to_batch \in keys
                THEN DictSet(batch_lineages, to_batch,
                             add_incoming_transaction(DictGet(batch_lineages, to_batch), trans, trans.net))
                ELSE IF from_batch # "" /\ from_batch \in keys
                THEN DictSet(batch_lineages, from_batch,
                             mark_left(add_outgoing_transaction(DictGet(batch_lineages, from_batch), trans), trans))
                ELSE batch_lineages
          [] trans.op_type = "Adjustment" ->
                IF to_batch # "" /\ to_batch \in keys
                THEN DictSet(batch_lineages, to_batch,
                             add_incoming_transaction(DictGet(batch_lineages, to_batch), trans, trans.net))
                ELSE batch_lineages
          [] OTHER -> batch_lineages

\* body of the second pass of _build_lineage for one transaction
apply_transaction(batch_lineages, trans) ==
    LET to_batch == trans.to_batch
        from_batch == trans.from_batch
        keys == DictKeys(batch_lineages)
    IN  CASE trans.op_type = "On-Hand" ->
                IF to_batch \in keys
                THEN DictSet(batch_lineages, to_batch, set_on_hand(DictGet(batch_lineages, to_batch), trans))
                ELSE batch_lineages
          [] trans.op_type \in {"Transfer", "Blend", "Receipt"} ->
                LET incoming ==
                        IF to_batch # "" /\ to_batch \in keys
                        THEN DictSet(batch_lineages, to_batch,
                                     add_incoming_transaction(DictGet(batch_lineages, to_batch), trans, trans.net))
                        ELSE batch_lineages
                IN  IF from_batch # "" /\ from_batch \in keys
                    THEN DictSet(incoming, from_batch,
                                 mark_left(add_outgoing_transaction(DictGet(incoming, from_batch), trans), trans))
                    ELSE incoming
          [] trans.op_type = "Adjustment" ->
                IF to_batch # "" /\ to_batch \in keys
                THEN DictSet(batch_lineages, to_batch,
                             add_incoming_transaction(DictGet(batch_lineages, to_batch), trans, trans.net))
                ELSE batch_lineages
          [] OTHER -> batch_lineages

RECURSIVE populate(_, _, _)
\* second pass of _build_lineage: for trans in self.transactions
populate(batch_lineages, transactions, i) ==
    IF i > Len(transactions) THEN batch_lineages
    ELSE populate(apply_transaction(batch_lineages, transactions[i]), transactions, i + 1)

\* _build_lineage, with the iteration order of the all_batches set given
build_lineage(transactions, batch_lineages, order) ==
    populate(create_lineages(batch_lineages, order, 1), transactions, 1)

RECURSIVE rows_read(_, _)
\* how many rows the reader loop of load_from_csv appends before Transaction(row)
\* raises (all of them when none does), counting from row i
rows_read(rows, i) ==
    IF i > Len(rows) \/ ~TransactionOk(rows[i]) THEN i - 1 ELSE rows_read(rows, i + 1)

\* self.transactions after the reader loop of load_from_csv
appended(transactions, rows) ==
    transactions \o [i \in 1..rows_read(rows, 1) |-> Transaction(rows[i], Len(transactions) + i)]

\* load_from_csv: the rows are appended one by one; an exception of
\* Transaction(row) is logged and re-raised before _build_lineage runs
load_from_csv(a, rows, order) ==
    LET transactions == appended(a.transactions, rows)
    IN  IF Len(transactions) = Len(a.transactions) + Len(rows)
        THEN [transactions |-> transactions,
              batch_lineages |-> build_lineage(transactions, a.batch_lineages, order),
              status |-> "built"]
        ELSE [transactions |-> transactions,
              batch_lineages |-> a.batch_lineages,
              status |-> "raised"]

----------------------------------------------------------------------------
(* class TransactionLineageAnalyzer: queries *)

\* mutant of get_batch_lineage: an unknown name gives a new, empty lineage
get_batch_lineage_default(a, batch_name) ==
    IF batch_name \in DictKeys(a.batch_lineages)
    THEN [found |-> TRUE, lineage |-> DictGet(a.batch_lineages, batch_name)]
    ELSE [found |-> TRUE, lineage |-> BatchLineage(batch_name)]

\* self.batch_lineages.get(batch_name): the lineage, or None (found = FALSE)
get_batch_lineage(a, batch_name) ==
    IF batch_name \in DictKeys(a.batch_lineages)
    THEN [found |-> TRUE, lineage |-> DictGet(a.batch_lineages, batch_name)]
    ELSE [found |-> FALSE]

RECURSIVE names_where(_, _, _)
\* [batch_name for batch_name, lineage in d.items() if <condition>], from entry
\* i on; keep[j] is the condition's value for entry j
names_where(d, keep, i) ==
    IF i > Len(d) THEN <<>>
    ELSE (IF keep[i] THEN <<d[i].k>> ELSE <<>>) \o names_where(d, keep, i + 1)

is_on_hand_batch(lineage) == lineage.is_on_hand

\* mutant of is_shipped_batch: every batch that has left counts as shipped
is_shipped_ignoring_on_hand(lineage) == lineage.has_left_inventory

is_shipped_batch(lineage) == lineage.has_left_inventory /\ ~lineage.is_on_hand

get_all_on_hand_batches(a) ==
    names_where(a.batch_lineages,
                [j \in 1..Len(a.batch_lineages) |-> is_on_hand_batch(a.batch_lineages[j].v)], 1)

get_all_shipped_batches(a) ==
    names_where(a.batch_lineages,
                [j \in 1..Len(a.batch_lineages) |-> is_shipped_batch(a.batch_lineages[j].v)], 1)

----------------------------------------------------------------------------
(* class TransactionLineageAnalyzer: exports *)

Filters == {"none", "on-hand", "shipped"}

\* the filter of export_lineage_to_csv: TRUE when the batch is skipped (continue)
filtered_out(lineage, batch_filter) ==
    \/ batch_filter = "on-hand" /\ ~lineage.is_on_hand
    \/ batch_filter = "shipped" /\ ~lineage.has_left_inventory

EdgeRow(batch_name, lineage, source, gallons) ==
    [Destination_Batch |-> batch_name,
     Source_Batch |-> source,
     Gallons_Contributed |-> gallons,
     Destination_Current_Volume |-> lineage.current_volume,
     Destination_Is_On_Hand |-> lineage.is_on_hand,
     Destination_Has_Left |-> lineage.has_left_inventory]

\* mutant of batch_rows: a batch without contributors gets no row
batch_rows_no_origin(batch_name, lineage) ==
    [i \in 1..Len(lineage.contributing_batches) |->
        EdgeRow(batch_name, lineage, lineage.contributing_batches[i].k,
                lineage.contributing_batches[i].v)]

\* the rows export_lineage_to_csv appends for one batch that passes the filter
batch_rows(batch_name, lineage) ==
    IF lineage.contributing_batches # <<>>
    THEN [i \in 1..Len(lineage.contributing_batches) |->
            EdgeRow(batch_name, lineage, lineage.contributing_batches[i].k,
                    lineage.contributing_batches[i].v)]
    ELSE <<EdgeRow(batch_name, lineage, "", 0)>>

RECURSIVE edge_rows(_, _, _)
\* the loop of export_lineage_to_csv over self.batch_lineages.items(), from entry i
edge_rows(d, batch_filter, i) ==
    IF i > Len(d) THEN <<>>
    ELSE (IF filtered_out(d[i].v, batch_filter) THEN <<>> ELSE batch_rows(d[i].k, d[i].v))
         \o edge_rows(d, batch_filter, i + 1)

\* export_lineage_to_csv: the rows written (no file is written when there are none)
export_lineage_to_csv(a, batch_filter) == edge_rows(a.batch_lineages, batch_filter, 1)

\* BatchLineage.to_dict
lineage_to_dict(lineage) ==
    [batch_name |-> lineage.batch_name,
     current_volume |-> lineage.current_volume,
     is_on_hand |-> lineage.is_on_hand,
     has_left_inventory |-> lineage.has_left_inventory,
     contributing_batches |-> lineage.contributing_batches,
     total_contributing_batches |-> Len(lineage.contributing_batches),
     incoming_transaction_count |-> Len(lineage.contributing_transactions),
     outgoing_transaction_count |-> Len(lineage.outgoing_transactions)]

\* Transaction.to_dict, restricted to the fields of the model
transaction_to_dict(trans) ==
    [op_type |-> trans.op_type, from_batch |-> trans.from_batch, to_batch |-> trans.to_batch,
     net |-> trans.net, loss_gain_amount |-> trans.loss_gain_amount]

\* export_to_json: the document dumped
export_to_json(a) ==
    [metadata |->
        [total_transactions |-> Len(a.transactions),
         total_batches |-> Len(a.batch_lineages),
         on_hand_batches |-> Len(get_all_on_hand_batches(a)),
         shipped_batches |-> Len(get_all_shipped_batches(a))],
     batches |->
        [i \in 1..Len(a.batch_lineages) |->
            [k |-> a.batch_lineages[i].k, v |-> lineage_to_dict(a.batch_lineages[i].v)]],
     transactions |-> [i \in 1..Len(a.transactions) |-> transaction_to_dict(a.transactions[i])]]

\* export_transactions_to_csv: the rows written, in the order of self.transactions
export_transactions_to_csv(a) ==
    [i \in 1..Len(a.transactions) |-> transaction_to_dict(a.transactions[i])]

----------------------------------------------------------------------------
(* class TransactionLineageAnalyzer: the report *)

\* the batch names of the model in the order Python compares strings
NameOrder == <<"A", "B", "C", "Z">>

RECURSIVE sorted_items(_, _)
\* sorted(d.items()), from the name of rank i on
sorted_items(d, i) ==
    IF i > Len(NameOrder) THEN <<>>
    ELSE (IF NameOrder[i] \in DictKeys(d)
          THEN <<[k |-> NameOrder[i], v |-> DictGet(d, NameOrder[i])]>>
          ELSE <<>>) \o sorted_items(d, i + 1)

\* return f"Batch '{batch_name}' not found in transactions"
NotFoundMessage(batch_name) == [kind |-> "not_found", batch_name |-> batch_name]

\* generate_lineage_report: the message for an unknown batch, or the sections
\* of the report (status line, volume, sorted contributors, the two lists)
generate_lineage_report(a, batch_name) ==
    LET found == get_batch_lineage(a, batch_name)
        lineage == found.lineage
    IN  IF ~found.found THEN NotFoundMessage(batch_name)
        ELSE [kind |-> "report",
              batch_name |-> batch_name,
              status |-> IF lineage.is_on_hand THEN "ON-HAND"
                         ELSE IF lineage.has_left_inventory THEN "SHIPPED" ELSE "UNKNOWN",
              current_volume |-> lineage.current_volume,
              contributing_batches |-> sorted_items(lineage.contributing_batches, 1),
              incoming |->
                  [j \in 1..Len(lineage.contributing_transactions) |->
                      transaction_to_dict(a.transactions[lineage.contributing_transactions[j]])],
              outgoing |->
                  [j \in 1..Len(lineage.outgoing_transactions) |->
                      transaction_to_dict(a.transactions[lineage.outgoing_transactions[j]])]]

----------------------------------------------------------------------------
(* Ledger files *)

\* a row of the ledger file as csv.DictReader yields it
Row(op_type, from_batch, to_batch, net, loss_gain) ==
    [op_type |-> op_type, from_batch |-> from_batch, to_batch |-> to_batch,
     net |-> net, loss_gain |-> loss_gain]

\* source and destination cells of a row: both directions between two batches,
\* a batch moved into itself, an empty source cell and an empty destination
Endpoints == {<<"A", "B">>, <<"B", "A">>, <<"A", "A">>, <<"", "A">>, <<"A", "">>}

\* well-formed rows of every operation type, with small volumes
LedgerRows ==
    {Row(t, e[1], e[2], Text(<<n>>), Text(<<"0">>)) :
        t \in OpTypes, e \in Endpoints, n \in {"1", "2"}}

Ledgers == SeqsUpTo(LedgerRows, MaxRows)

NoResult == [op |-> "none"]

----------------------------------------------------------------------------
(* get_full_lineage_tree, one step of the recursion at a time *)

\* the frame of a call get_full_lineage_tree(batch_name, visited) at its entry
CallFrame(batch_name, visited, gallons) ==
    [pc |-> "enter", batch_name |-> batch_name, visited |-> visited,
     gallons |-> gallons, next |-> 1, tree |-> [batch_name |-> batch_name]]

\* return {'batch_name': batch_name, 'cycle_detected': True}
CycleLeaf(batch_name) == [batch_name |-> batch_name, kind |-> "cycle_detected"]

\* return {'batch_name': batch_name, 'not_found': True}
NotFoundLeaf(batch_name) == [batch_name |-> batch_name, kind |-> "not_found"]

\* the tree dict of a batch that is found, before its children are appended
TreeNode(batch_name, lineage) ==
    [batch_name |-> batch_name,
     kind |-> "expanded",
     current_volume |-> lineage.current_volume,
     is_on_hand |-> lineage.is_on_hand,
     has_left_inventory |-> lineage.has_left_inventory,
     contributing_batches |-> <<>>]

\* mutant of on_path: no batch is ever taken as visited
on_path_never(batch_name, visited) == FALSE

\* if batch_name in visited
on_path(batch_name, visited) == batch_name \in visited

\* mutant of child_visited: the visited set of a child call starts empty
child_visited_empty(visited) == {}

\* visited.copy(): the child call gets the names of the path down to its parent
child_visited(visited) == visited

\* mutant of Return: the child call was given the visited set itself, not a
\* copy, so the names it added are in the caller's set when it returns
Return_shared(value) ==
    IF Len(stack) = 1
    THEN /\ stack' = <<>>
         /\ tree' = [op |-> "get_full_lineage_tree", value |-> value]
    ELSE LET callee == stack[Len(stack)]
             caller == stack[Len(stack) - 1]
             sub_tree == value @@ [gallons_contributed |-> callee.gallons]
         IN  /\ stack' = [SubSeq(stack, 1, Len(stack) - 1) EXCEPT
                            ![Len(stack) - 1] =
                                [caller EXCEPT
                                    !.next = @ + 1,
                                    !.visited = @ \cup callee.visited,
                                    !.tree.contributing_batches = Append(@, sub_tree)]]
             /\ tree' = tree

\* the callee returns value: to the caller of the outermost call, or into the
\* loop of the calling frame (sub_tree['gallons_contributed'] = gallons; append)
Return(value) ==
    IF Len(stack) = 1
    THEN /\ stack' = <<>>
         /\ tree' = [op |-> "get_full_lineage_tree", value |-> value]
    ELSE LET callee == stack[Len(stack)]
             caller == stack[Len(stack) - 1]
             sub_tree == value @@ [gallons_contributed |-> callee.gallons]
         IN  /\ stack' = [SubSeq(stack, 1, Len(stack) - 1) EXCEPT
                            ![Len(stack) - 1] =
                                [caller EXCEPT
                                    !.next = @ + 1,
                                    !.tree.contributing_batches = Append(@, sub_tree)]]
             /\ tree' = tree

\* recursion depth the model follows (the code has none but Python's own limit)
DepthCap == 6

\* the outermost call get_full_lineage_tree(batch_name) on analyzer i
TreeCall(i) ==
    /\ stack = <<>>
    /\ \E batch_name \in TreeNames \cup {UnknownName} :
          stack' = <<CallFrame(batch_name, {}, 0)>>
    /\ tree' = NoResult
    /\ UNCHANGED <<file, an, result>>

\* the running call of get_full_lineage_tree on analyzer i takes its next step
TreeStep(i) ==
    /\ stack # <<>>
    /\ LET top == stack[Len(stack)]
           lineage == get_batch_lineage(an[i], top.batch_name)
       IN  IF top.pc = "enter"
           THEN IF on_path(top.batch_name, top.visited)
                THEN Return(CycleLeaf(top.batch_name))
                ELSE IF ~lineage.found
                THEN Return(NotFoundLeaf(top.batch_name))
                ELSE /\ stack' = [stack EXCEPT ![Len(stack)] =
                                    [top EXCEPT
                                        !.pc = "loop",
                                        !.visited = @ \cup {top.batch_name},
                                        !.tree = TreeNode(top.batch_name, lineage.lineage)]]
                     /\ tree' = tree
           ELSE IF top.next <= Len(lineage.lineage.contributing_batches)
                THEN /\ Len(stack) < DepthCap
                     /\ stack' = Append(stack,
                            CallFrame(lineage.lineage.contributing_batches[top.next].k,
                                      child_visited(top.visited),
                                      lineage.lineage.contributing_batches[top.next].v))
                     /\ tree' = tree
                ELSE Return(top.tree)
    /\ UNCHANGED <<file, an, result>>

----------------------------------------------------------------------------
(* Actions *)

\* analyzer i loads the rows: load_from_csv, the first pass iterating the set of
\* batch names in some order; the call returns None or raises
Load(i, rows) ==
    /\ \E order \in Perms(all_batches(appended(an[i].transactions, rows))) :
          an' = [an EXCEPT ![i] = load_from_csv(an[i], rows, order)]
    /\ file' = [file EXCEPT ![i] = rows]
    /\ result' = [op |-> "load_from_csv", run |-> i, arg |-> "",
                  value |-> IF rows_read(rows, 1) = Len(rows) THEN "None" ELSE "raised"]
    /\ UNCHANGED <<stack, tree>>

\* analyzer i, holding no ledger yet, is given one of the ledger files
LoadFrom(i, ledgers) ==
    /\ an[i].status = "new"
    /\ \E rows \in ledgers : Load(i, rows)

\* mutant of GetBatchLineage: the lookup of an unknown name inserts an empty
\* lineage for it (setdefault)
GetBatchLineage_setdefault(i) ==
    /\ \E name \in TreeNames \cup {UnknownName} :
          /\ result' = [op |-> "get_batch_lineage", run |-> i, arg |-> name,
                        value |-> get_batch_lineage(an[i], name)]
          /\ an' = [an EXCEPT ![i].batch_lineages =
                        IF name \in DictKeys(@) THEN @ ELSE DictSet(@, name, BatchLineage(name))]
    /\ UNCHANGED <<file, stack, tree>>

GetBatchLineage(i) ==
    /\ \E name \in TreeNames \cup {UnknownName} :
          result' = [op |-> "get_batch_lineage", run |-> i, arg |-> name,
                     value |-> get_batch_lineage(an[i], name)]
    /\ UNCHANGED <<file, an, stack, tree>>

GetAllOnHandBatches(i) ==
    /\ result' = [op |-> "get_all_on_hand_batches", run |-> i, arg |-> "",
                  value |-> get_all_on_hand_batches(an[i])]
    /\ UNCHANGED <<file, an, stack, tree>>

GetAllShippedBatches(i) ==
    /\ result' = [op |-> "get_all_shipped_batches", run |-> i, arg |-> "",
                  value |-> get_all_shipped_batches(an[i])]
    /\ UNCHANGED <<file, an, stack, tree>>

ExportLineageToCsv(i) ==
    /\ \E batch_filter \in Filters :
          result' = [op |-> "export_lineage_to_csv", run |-> i, arg |-> batch_filter,
                     value |-> export_lineage_to_csv(an[i], batch_filter)]
    /\ UNCHANGED <<file, an, stack, tree>>

ExportToJson(i) ==
    /\ result' = [op |-> "export_to_json", run |-> i, arg |-> "",
                  value |-> export_to_json(an[i])]
    /\ UNCHANGED <<file, an, stack, tree>>

GenerateLineageReport(i) ==
    /\ \E name \in TreeNames \cup {UnknownName} :
          result' = [op |-> "generate_lineage_report", run |-> i, arg |-> name,
                     value |-> generate_lineage_report(an[i], name)]
    /\ UNCHANGED <<file, an, stack, tree>>

ExportTransactionsToCsv(i) ==
    /\ result' = [op |-> "export_transactions_to_csv", run |-> i, arg |-> "",
                  value |-> export_transactions_to_csv(an[i])]
    /\ UNCHANGED <<file, an, stack, tree>>

\* the operation types _build_lineage has a branch for
KnownOpTypes == {"On-Hand", "Transfer", "Blend", "Receipt", "Adjustment"}

\* the ledger without its row k
Omit(rows, k) == SubSeq(rows, 1, k - 1) \o SubSeq(rows, k + 1, Len(rows))

\* a second, fresh analyzer (another run of the program) loads the ledger of
\* analyzer 1 again
LoadSame(i) ==
    /\ an[i].status = "new"
    /\ an[1].status # "new"
    /\ Load(i, file[1])

\* a second, fresh analyzer loads the ledger of analyzer 1 without one of its
\* rows of an unknown operation type
LoadOmitting(i) ==
    /\ an[i].status = "new"
    /\ an[1].status # "new"
    /\ \E k \in 1..Len(file[1]) :
          /\ file[1][k].op_type \notin KnownOpTypes
          /\ Load(i, Omit(file[1], k))

\* load_from_csv is called again on analyzer i, which holds a ledger: the rows
\* given to it so far are followed by the new ones
LoadAgain(i, rows) ==
    /\ an[i].status = "built"
    /\ \E order \in Perms(all_batches(appended(an[i].transactions, rows))) :
          an' = [an EXCEPT ![i] = load_from_csv(an[i], rows, order)]
    /\ file' = [file EXCEPT ![i] = @ \o rows]
    /\ result' = [op |-> "load_from_csv", run |-> i, arg |-> "",
                  value |-> IF rows_read(rows, 1) = Len(rows) THEN "None" ELSE "raised"]
    /\ UNCHANGED <<stack, tree>>

\* the rows in the order perm
Permuted(rows, perm) == [k \in 1..Len(rows) |-> rows[perm[k]]]

\* a second, fresh analyzer loads the rows of the ledger of analyzer 1 in some
\* other order
LoadPermuted(i) ==
    /\ an[i].status = "new"
    /\ an[1].status # "new"
    /\ \E perm \in Perms(1..Len(file[1])) : Load(i, Permuted(file[1], perm))

----------------------------------------------------------------------------
(* Specification: one analyzer ingests a ledger with rows of every operation *)
(* type                                                                      *)

Init ==
    /\ file = [i \in Runs |-> <<>>]
    /\ an = [i \in Runs |-> NewAnalyzer]
    /\ result = NoResult
    /\ stack = <<>>
    /\ tree = NoResult

Next == LoadFrom(1, Ledgers)

Spec == Init /\ [][Next]_vars

----------------------------------------------------------------------------
(* Specification: an analyzer ingests a ledger of transfers and On-Hand      *)
(* records over three batches, and is queried and exported                   *)

\* transfers between distinct batches, and On-Hand records
ExportRows ==
    {Row("Transfer", e[1], e[2], Text(<<"1">>), Text(<<"0">>)) :
        e \in {p \in TreeNames \X TreeNames : p[1] # p[2]}}
    \cup {Row("On-Hand", "", d, Text(<<"2">>), Text(<<"0">>)) : d \in TreeNames}

ExportLedgers == SeqsUpTo(ExportRows, MaxExportRows)

NextExport ==
    \/ LoadFrom(1, ExportLedgers)
    \/ GetBatchLineage(1)
    \/ GetAllOnHandBatches(1)
    \/ GetAllShippedBatches(1)
    \/ ExportLineageToCsv(1)
    \/ ExportToJson(1)

SpecExport == Init /\ [][NextExport]_vars

----------------------------------------------------------------------------
(* Specification: an analyzer ingests a ledger of transfers and the lineage  *)
(* tree of a batch is expanded                                               *)

\* transfers between distinct batches
TreeRows ==
    {Row("Transfer", e[1], e[2], Text(<<"1">>), Text(<<"0">>)) :
        e \in {p \in TreeNames \X TreeNames : p[1] # p[2]}}

TreeLedgers == SeqsUpTo(TreeRows, MaxTreeRows)

NextTree ==
    \/ LoadFrom(1, TreeLedgers)
    \/ TreeCall(1)
    \/ TreeStep(1)

SpecTree == Init /\ [][NextTree]_vars /\ WF_vars(TreeStep(1))

\* the same steps without the fairness condition, for what holds of every step
SpecBranch == Init /\ [][NextTree]_vars

----------------------------------------------------------------------------
(* Specification: two runs of the program ingest the same ledger *)

NextRuns ==
    \/ LoadFrom(1, Ledgers)
    \/ LoadSame(2)

SpecRuns == Init /\ [][NextRuns]_vars

----------------------------------------------------------------------------
(* Specification: a second run ingests the ledger without one record of an   *)
(* unknown operation type                                                    *)

NextOmit ==
    \/ LoadFrom(1, Ledgers)
    \/ LoadOmitting(2)

SpecOmit == Init /\ [][NextOmit]_vars

----------------------------------------------------------------------------
(* Specification: an analyzer ingests a CSV file whose numeric cells may be  *)
(* empty, non-numeric, missing from a short row, or in no column at all      *)

\* what a NET cell of a file with a NET column can hold: empty, numerals with
\* a blank or a sign, non-numeric text, or None in a row shorter than the header
NetCells ==
    {Text(<<>>), Text(<<"1">>), Text(<<" ", "2">>), Text(<<"-", "2">>),
     Text(<<"x">>), Text(<<"1", "x">>), NoneCell}

\* what a Loss/Gain Amount cell of a file with that column can hold
LossGainCells == {Text(<<"0">>), Text(<<"x">>), Text(<<>>)}

\* the rows of CSV files, a numeric column the header lacks being absent
CsvRows ==
    {Row(e[1], e[2], e[3], n, l) :
        e \in {<<"Transfer", "A", "B">>, <<"On-Hand", "", "A">>},
        n \in NetCells \cup {Absent},
        l \in LossGainCells \cup {Absent}}

\* a column the header lacks is absent from every row of the file
SameHeader(rows) ==
    \A j, k \in 1..Len(rows) :
        /\ (rows[j].net = Absent) <=> (rows[k].net = Absent)
        /\ (rows[j].loss_gain = Absent) <=> (rows[k].loss_gain = Absent)

CsvLedgers == {rows \in SeqsUpTo(CsvRows, MaxRows) : SameHeader(rows)}

NextCsv == LoadFrom(1, CsvLedgers)

SpecCsv == Init /\ [][NextCsv]_vars

----------------------------------------------------------------------------
(* Specification: an analyzer ingests a ledger of mixed records (a cycle, a  *)
(* batch moved into itself, an Adjustment, an unknown type) and every query  *)
(* and export is called on it, the lineage tree included                     *)

QueryRows ==
    {Row("Transfer", "A", "B", Text(<<"1">>), Text(<<"0">>)),
     Row("Transfer", "B", "A", Text(<<"1">>), Text(<<"0">>)),
     Row("Transfer", "A", "A", Text(<<"1">>), Text(<<"0">>)),
     Row("Adjustment", "C", "B", Text(<<"2">>), Text(<<"0">>)),
     Row("Bogus", "C", "A", Text(<<"1">>), Text(<<"0">>)),
     Row("On-Hand", "", "A", Text(<<"2">>), Text(<<"0">>))}

QueryLedgers == SeqsUpTo(QueryRows, MaxQueryRows)

NextQuery ==
    \/ LoadFrom(1, QueryLedgers)
    \/ GetBatchLineage(1)
    \/ GetAllOnHandBatches(1)
    \/ GetAllShippedBatches(1)
    \/ GenerateLineageReport(1)
    \/ ExportLineageToCsv(1)
    \/ ExportTransactionsToCsv(1)
    \/ ExportToJson(1)
    \/ TreeCall(1)
    \/ TreeStep(1)

SpecQuery == Init /\ [][NextQuery]_vars

----------------------------------------------------------------------------
(* Specification: an analyzer ingests a ledger of records of every operation *)
(* type between two batches, into the same batch, and with an empty side     *)

BuildRows ==
    {Row(t, e[1], e[2], Text(<<"1">>), Text(<<"0">>)) : t \in OpTypes, e \in Endpoints}
    \cup {Row("Transfer", e[1], e[2], Text(<<"2">>), Text(<<"0">>)) : e \in Endpoints}

BuildLedgers == SeqsUpTo(BuildRows, MaxBuildRows)

NextBuild == LoadFrom(1, BuildLedgers)

SpecBuild == Init /\ [][NextBuild]_vars

----------------------------------------------------------------------------
(* Specification: an analyzer ingests a ledger with records of a batch into  *)
(* itself and records without a source, and the lineage tree is expanded     *)

SelfRows ==
    {Row("Transfer", "A", "A", Text(<<"1">>), Text(<<"0">>)),
     Row("Adjustment", "B", "B", Text(<<"2">>), Text(<<"0">>)),
     Row("Receipt", "", "A", Text(<<"1">>), Text(<<"0">>)),
     Row("Transfer", "A", "B", Text(<<"1">>), Text(<<"0">>)),
     Row("Blend", "B", "A", Text(<<"2">>), Text(<<"0">>))}

SelfLedgers == SeqsUpTo(SelfRows, MaxSelfRows)

NextSelf ==
    \/ LoadFrom(1, SelfLedgers)
    \/ TreeCall(1)
    \/ TreeStep(1)

SpecSelf == Init /\ [][NextSelf]_vars

----------------------------------------------------------------------------
(* Specification: an analyzer ingests a first ledger and then further        *)
(* ledgers; a fresh analyzer ingests all the rows at once                    *)

ReloadRows ==
    {Row("Transfer", "A", "B", Text(<<"1">>), Text(<<"0">>)),
     Row("Transfer", "A", "B", Text(<<"2">>), Text(<<"0">>)),
     Row("On-Hand", "", "B", Text(<<"2">>), Text(<<"0">>)),
     Row("Blend", "B", "C", Text(<<"1">>), Text(<<"0">>)),
     Row("Receipt", "C", "A", Text(<<"1">>), Text(<<"0">>))}

FirstLedgers == SeqsUpTo(ReloadRows, MaxFirstRows)

ReloadLedgers == SeqsUpTo(ReloadRows, MaxReloadRows)

NextReload ==
    \/ LoadFrom(1, FirstLedgers)
    \/ \E rows \in {r \in ReloadLedgers : Len(file[1]) + Len(r) <= MaxReloadRows} :
          LoadAgain(1, rows)
    \/ LoadSame(2)

SpecReload == Init /\ [][NextReload]_vars

----------------------------------------------------------------------------
(* Specification: a second run ingests the records of the ledger in another  *)
(* order; the volumes include one at the limit of the float precision        *)

PermRows ==
    {Row("Transfer", "A", "B", Text(<<"1">>), Text(<<"0">>)),
     Row("Transfer", "A", "B", Text(<<"8">>), Text(<<"0">>)),
     Row("Blend", "B", "A", Text(<<"1">>), Text(<<"0">>)),
     Row("On-Hand", "", "B", Text(<<"1">>), Text(<<"0">>)),
     Row("On-Hand", "", "B", Text(<<"2">>), Text(<<"0">>))}

PermLedgers == SeqsUpTo(PermRows, MaxPermRows)

NextPerm ==
    \/ LoadFrom(1, PermLedgers)
    \/ LoadPermuted(2)

SpecPerm == Init /\ [][NextPerm]_vars

----------------------------------------------------------------------------
(* Statements about the ledger, independent of the engine *)

Built(i) == an[i].status = "built"

Ledger(i) == an[i].transactions

Lineage(i, batch_name) == get_batch_lineage(an[i], batch_name).lineage

Batches(i) == DictKeys(an[i].batch_lineages)

\* record k of the ledger moves material from source to destination
Contributes(i, k, source, destination) ==
    /\ Ledger(i)[k].op_type \in {"Transfer", "Blend", "Receipt", "Adjustment"}
    /\ Ledger(i)[k].from_batch = source
    /\ Ledger(i)[k].to_batch = destination

RECURSIVE NetSum(_, _, _, _)
\* sum of the net volumes of the records 1..k that move source into
\* destination, added one by one in ledger order
NetSum(i, k, source, destination) ==
    IF k = 0 THEN 0
    ELSE IF Contributes(i, k, source, destination)
         THEN FloatAdd(NetSum(i, k - 1, source, destination), Ledger(i)[k].net)
         ELSE NetSum(i, k - 1, source, destination)

\* the On-Hand records of the ledger with destination batch_name
OnHandRecords(i, batch_name) ==
    {k \in 1..Len(Ledger(i)) :
        Ledger(i)[k].op_type = "On-Hand" /\ Ledger(i)[k].to_batch = batch_name}

Max(S) == CHOOSE x \in S : \A y \in S : y <= x

\* the Transfer and Blend records of the ledger with source batch_name
DepartureRecords(i, batch_name) ==
    {k \in 1..Len(Ledger(i)) :
        Ledger(i)[k].op_type \in {"Transfer", "Blend"} /\ Ledger(i)[k].from_batch = batch_name}

----------------------------------------------------------------------------
(* Claims *)

\* C1: after ingestion, for distinct batches A and B, the contribution of A
\* recorded in get_batch_lineage(B) is the sum of the net volumes of all
\* Transfer, Blend, Receipt and Adjustment records A -> B (no entry when there
\* is no such record): contributions accumulate and are never overwritten.
C1_ContributionsAccumulate ==
    Built(1) =>
        \A destination \in Batches(1) : \A source \in Batches(1) \ {destination} :
            LET contrib == Lineage(1, destination).contributing_batches
            IN  IF \E k \in 1..Len(Ledger(1)) : Contributes(1, k, source, destination)
                THEN /\ source \in DictKeys(contrib)
                     /\ DictGet(contrib, source) = NetSum(1, Len(Ledger(1)), source, destination)
                ELSE source \notin DictKeys(contrib)

\* C1 witness: two records A -> B with net 1 and 2 were ingested and the
\* lineage get_batch_lineage("B") gives holds 3 as the contribution of A
C1_Witness ==
    /\ Built(1)
    /\ Len(Ledger(1)) = 2
    /\ Contributes(1, 1, "A", "B") /\ Contributes(1, 2, "A", "B")
    /\ Ledger(1)[1].net = 1 /\ Ledger(1)[2].net = 2
    /\ get_batch_lineage(an[1], "B").found
    /\ DictGet(Lineage(1, "B").contributing_batches, "A") = 3

\* C2: after ingestion a batch is on hand iff the ledger has an On-Hand record
\* with that destination, and its current volume is the net volume of the last
\* such record (0 without one), whatever other records touch the batch.
C2_OnHandLastWriterWins ==
    Built(1) =>
        \A x \in Batches(1) :
            /\ Lineage(1, x).is_on_hand <=> OnHandRecords(1, x) # {}
            /\ Lineage(1, x).current_volume =
                    IF OnHandRecords(1, x) = {} THEN 0 ELSE Ledger(1)[Max(OnHandRecords(1, x))].net

\* C2 witness: two On-Hand records for A with net 2 then 1; A is on hand with
\* current volume 1
C2_Witness ==
    /\ Built(1)
    /\ OnHandRecords(1, "A") = {1, 2}
    /\ Ledger(1)[1].net = 2 /\ Ledger(1)[2].net = 1
    /\ get_batch_lineage(an[1], "A").found
    /\ Lineage(1, "A").is_on_hand
    /\ Lineage(1, "A").current_volume = 1

\* C3: after ingestion has_left_inventory of a batch is true iff the batch is
\* the source of at least one Transfer or Blend record; a Receipt out of the
\* batch does not set it.
C3_ReceiptExemption ==
    Built(1) =>
        \A a \in Batches(1) :
            Lineage(1, a).has_left_inventory <=> DepartureRecords(1, a) # {}

\* C3 witness: a Receipt with source A and a Transfer with source B were
\* ingested; A has not left inventory and B has
C3_Witness ==
    /\ Built(1)
    /\ \E k \in 1..Len(Ledger(1)) :
          Ledger(1)[k].op_type = "Receipt" /\ Ledger(1)[k].from_batch = "A"
    /\ \E k \in 1..Len(Ledger(1)) :
          Ledger(1)[k].op_type = "Transfer" /\ Ledger(1)[k].from_batch = "B"
    /\ ~Lineage(1, "A").has_left_inventory
    /\ Lineage(1, "B").has_left_inventory

\* a lineage of run i with its transaction lists by content (the fields of the
\* records referred to)
LineageContent(i, lineage) ==
    [lineage EXCEPT
        !.contributing_transactions = [j \in 1..Len(@) |-> transaction_to_dict(Ledger(i)[@[j]])],
        !.outgoing_transactions = [j \in 1..Len(@) |-> transaction_to_dict(Ledger(i)[@[j]])]]

\* get_batch_lineage(batch_name) gives the same in runs i and j: not found in
\* both, or lineages of equal content
SameLineage(i, j, batch_name) ==
    LET li == get_batch_lineage(an[i], batch_name)
        lj == get_batch_lineage(an[j], batch_name)
    IN  /\ li.found = lj.found
        /\ li.found => LineageContent(i, li.lineage) = LineageContent(j, lj.lineage)

\* C4: a record of an unknown operation type leaves the lineage of its source
\* and of its destination as in a run that omits the record, not-found
\* included.
C4_UnknownTypeNoOp ==
    (Built(1) /\ Built(2)) =>
        \A k \in 1..Len(file[1]) :
            (file[1][k].op_type \notin KnownOpTypes /\ file[2] = Omit(file[1], k)) =>
                /\ SameLineage(1, 2, file[1][k].from_batch)
                /\ SameLineage(1, 2, file[1][k].to_batch)

\* the frames of the running traversal that expanded their batch (passed the
\* cycle guard and found the lineage)
ExpandedFrames == {k \in 1..Len(stack) : stack[k].pc = "loop"}

RECURSIVE CycleSafe(_, _)
\* in the tree t below the given ancestors: a node is a cycle_detected leaf
\* exactly when its batch is one of its ancestors, so no expanded node repeats
\* an ancestor
CycleSafe(t, ancestors) ==
    IF t.batch_name \in ancestors
    THEN t.kind = "cycle_detected"
    ELSE /\ t.kind # "cycle_detected"
         /\ t.kind = "expanded" =>
                \A k \in 1..Len(t.contributing_batches) :
                    CycleSafe(t.contributing_batches[k], ancestors \cup {t.batch_name})

\* what holds at every step of a traversal and of the tree it returns
TreeSafe ==
    /\ Len(stack) <= Len(an[1].batch_lineages) + 1
    /\ \A j, k \in ExpandedFrames : j # k => stack[j].batch_name # stack[k].batch_name
    /\ \A k \in 1..Len(stack) :
          stack[k].visited \subseteq {stack[j].batch_name : j \in ExpandedFrames}
    /\ tree.op = "get_full_lineage_tree" => CycleSafe(tree.value, {})

\* C5: get_full_lineage_tree terminates for every ledger (cyclic ones included)
\* and every batch name: the recursion is never deeper than the number of
\* batches plus one, no batch is expanded twice on one path, and a path that
\* comes back to one of its batches ends in a cycle_detected leaf.
C5_TreeTerminates ==
    /\ []TreeSafe
    /\ (stack # <<>>) ~> (stack = <<>> /\ tree.op = "get_full_lineage_tree")

\* C5 witness: over the cycle A -> B -> C -> A the call for A returned a tree
\* whose path A, C, B ends in a cycle_detected leaf for A
C5_Witness ==
    /\ Built(1)
    /\ tree.op = "get_full_lineage_tree"
    /\ tree.value.batch_name = "A"
    /\ tree.value.kind = "expanded"
    /\ Len(tree.value.contributing_batches) = 1
    /\ LET c1 == tree.value.contributing_batches[1]
       IN  /\ c1.batch_name = "C" /\ c1.kind = "expanded"
           /\ Len(c1.contributing_batches) = 1
           /\ LET c2 == c1.contributing_batches[1]
              IN  /\ c2.batch_name = "B" /\ c2.kind = "expanded"
                  /\ Len(c2.contributing_batches) = 1
                  /\ c2.contributing_batches[1] =
                        [batch_name |-> "A", kind |-> "cycle_detected", gallons_contributed |-> 1]

\* the batches that are the destination of a row of the edge export
ExportedBatches(rows) == {rows[k].Destination_Batch : k \in 1..Len(rows)}

\* the rows of the edge export with the given destination
RowsOf(rows, batch_name) == {k \in 1..Len(rows) : rows[k].Destination_Batch = batch_name}

\* the batch passes the filter of the edge export as export_lineage_to_csv
\* documents and applies it
Passes(lineage, batch_filter) ==
    CASE batch_filter = "on-hand" -> lineage.is_on_hand
      [] batch_filter = "shipped" -> lineage.has_left_inventory
      [] OTHER -> TRUE

\* C7: get_all_shipped_batches returns exactly the batches that have left
\* inventory and are not on hand, that is the sources of a Transfer or Blend
\* that no On-Hand record names; get_all_on_hand_batches returns exactly the
\* destinations of On-Hand records, so a batch with a Transfer out and an
\* On-Hand record is on hand and not shipped.
C7_ShippedClassification ==
    /\ result.op = "get_all_shipped_batches" =>
          /\ Range(result.value) =
                {b \in Batches(1) :
                    Lineage(1, b).has_left_inventory /\ ~Lineage(1, b).is_on_hand}
          /\ Range(result.value) =
                {b \in Batches(1) : DepartureRecords(1, b) # {} /\ OnHandRecords(1, b) = {}}
          /\ Cardinality(Range(result.value)) = Len(result.value)
    /\ result.op = "get_all_on_hand_batches" =>
          /\ Range(result.value) = {b \in Batches(1) : OnHandRecords(1, b) # {}}
          /\ Cardinality(Range(result.value)) = Len(result.value)

\* C7 witness: A and B are both the source of a Transfer, B also has an On-Hand
\* record, and get_all_shipped_batches returned A alone
C7_Witness ==
    /\ Built(1)
    /\ DepartureRecords(1, "A") # {} /\ OnHandRecords(1, "A") = {}
    /\ DepartureRecords(1, "B") # {} /\ OnHandRecords(1, "B") # {}
    /\ result.op = "get_all_shipped_batches"
    /\ result.value = <<"A">>

\* C8: in the edge export a batch that passes the filter has one row with an
\* empty source and zero gallons when it has no contributor, and otherwise one
\* row per contributor and none with an empty source; a batch that does not
\* pass has no row; without a filter every batch has a row.
C8_EdgeRows ==
    result.op = "export_lineage_to_csv" =>
        /\ ExportedBatches(result.value) \subseteq Batches(1)
        /\ result.arg = "none" => ExportedBatches(result.value) = Batches(1)
        /\ \A b \in Batches(1) :
              LET rows == RowsOf(result.value, b)
                  contrib == Lineage(1, b).contributing_batches
              IN  IF ~Passes(Lineage(1, b), result.arg) THEN rows = {}
                  ELSE IF contrib = <<>>
                  THEN /\ Cardinality(rows) = 1
                       /\ \A k \in rows :
                             /\ result.value[k].Source_Batch = ""
                             /\ result.value[k].Gallons_Contributed = 0
                  ELSE /\ Cardinality(rows) = Len(contrib)
                       /\ {result.value[k].Source_Batch : k \in rows} = DictKeys(contrib)
                       /\ \A k \in rows :
                             /\ result.value[k].Source_Batch # ""
                             /\ result.value[k].Gallons_Contributed =
                                    DictGet(contrib, result.value[k].Source_Batch)

\* C8 witness: C has the two contributors A and B, which have none; the export
\* without a filter returned two rows for C and an origin row for A
C8_Witness ==
    /\ Built(1)
    /\ Batches(1) = {"A", "B", "C"}
    /\ DictKeys(Lineage(1, "C").contributing_batches) = {"A", "B"}
    /\ Lineage(1, "A").contributing_batches = <<>>
    /\ result.op = "export_lineage_to_csv" /\ result.arg = "none"
    /\ Cardinality(RowsOf(result.value, "C")) = 2
    /\ \E k \in RowsOf(result.value, "A") :
          result.value[k].Source_Batch = "" /\ result.value[k].Gallons_Contributed = 0

\* C9: the edge export with the 'shipped' filter has rows for exactly the
\* batches get_all_shipped_batches returns, and with the 'on-hand' filter for
\* exactly the batches get_all_on_hand_batches returns.
C9_FilterMatchesEngine ==
    result.op = "export_lineage_to_csv" =>
        /\ result.arg = "shipped" =>
              ExportedBatches(result.value) = Range(get_all_shipped_batches(an[1]))
        /\ result.arg = "on-hand" =>
              ExportedBatches(result.value) = Range(get_all_on_hand_batches(an[1]))

\* C6: two runs that ingested the same ordered ledger hold identical
\* batch-lineage mappings and produce identical edge exports and JSON
\* snapshots, row and batch order included.
C6_Deterministic ==
    (Built(1) /\ Built(2) /\ file[1] = file[2]) =>
        /\ DictKeys(an[1].batch_lineages) = DictKeys(an[2].batch_lineages)
        /\ \A name \in DictKeys(an[1].batch_lineages) :
              DictGet(an[1].batch_lineages, name) = DictGet(an[2].batch_lineages, name)
        /\ \A batch_filter \in Filters :
              export_lineage_to_csv(an[1], batch_filter) = export_lineage_to_csv(an[2], batch_filter)
        /\ export_to_json(an[1]) = export_to_json(an[2])


\* the cell is present but empty or non-numeric text
Unparsable(cell) ==
    /\ cell.kind = "text"
    /\ \/ cell.chars = <<>>
       \/ \E k \in 1..Len(cell.chars) : cell.chars[k] \notin Digits \cup {" ", "-", "+"}

\* the rows of the file with a numeric cell that is unparsable, or None
\* because the row is shorter than the header
FailingRows(rows) ==
    {k \in 1..Len(rows) :
        \/ Unparsable(rows[k].net) \/ Unparsable(rows[k].loss_gain)
        \/ rows[k].net.kind = "none" \/ rows[k].loss_gain.kind = "none"}

\* the number a numeric cell stands for: 0 for a column the file does not have
CellValue(cell) ==
    CASE cell = Absent -> 0
      [] cell = Text(<<"0">>) -> 0
      [] cell = Text(<<"1">>) -> 1
      [] cell = Text(<<" ", "2">>) -> 2
      [] cell = Text(<<"-", "2">>) -> 0 - 2

\* record k of the transaction list holds the fields of row k of the file
IngestedAs(i, k) ==
    /\ Ledger(i)[k].op_type = file[i][k].op_type
    /\ Ledger(i)[k].from_batch = file[i][k].from_batch
    /\ Ledger(i)[k].to_batch = file[i][k].to_batch
    /\ Ledger(i)[k].net = CellValue(file[i][k].net)
    /\ Ledger(i)[k].loss_gain_amount = CellValue(file[i][k].loss_gain)

\* C10 as stated: a row whose NET or Loss/Gain Amount is present but
\* unparsable is ingested with that field 0, the following rows are ingested
\* too, and the engine is constructed.
C10_MaskedToZero ==
    result.op = "load_from_csv" =>
        \A k \in 1..Len(file[1]) :
            (Unparsable(file[1][k].net) \/ Unparsable(file[1][k].loss_gain)) =>
                /\ Built(1)
                /\ Len(Ledger(1)) = Len(file[1])
                /\ Unparsable(file[1][k].net) => Ledger(1)[k].net = 0
                /\ Unparsable(file[1][k].loss_gain) => Ledger(1)[k].loss_gain_amount = 0

\* C10 amended: a row whose NET or Loss/Gain Amount is present but unparsable
\* (or None in a short row) makes load_from_csv raise at that row: the rows
\* before it are in the transaction list, no row from it on is, and no lineage
\* is built. A file without such a row is ingested whole and the engine is
\* constructed; only a numeric column the file does not have is read as 0.
C10_CoercionFailureAborts ==
    result.op = "load_from_csv" =>
        IF FailingRows(file[1]) = {}
        THEN /\ Built(1)
             /\ result.value = "None"
             /\ Len(Ledger(1)) = Len(file[1])
             /\ \A k \in 1..Len(file[1]) : IngestedAs(1, k)
        ELSE LET first == CHOOSE k \in FailingRows(file[1]) :
                              \A j \in FailingRows(file[1]) : k <= j
             IN  /\ an[1].status = "raised"
                 /\ result.value = "raised"
                 /\ Len(Ledger(1)) = first - 1
                 /\ \A k \in 1..(first - 1) : IngestedAs(1, k)
                 /\ an[1].batch_lineages = <<>>

\* C10 witness: a file of a well-formed Transfer A -> B followed by a row with
\* the NET cell "x" was loaded; the load raised, the transaction list holds the
\* first row alone and there is no lineage for A or B
C10_Witness ==
    /\ result.op = "load_from_csv" /\ result.value = "raised"
    /\ Len(file[1]) = 2
    /\ file[1][1] = Row("Transfer", "A", "B", Text(<<"1">>), Text(<<"0">>))
    /\ file[1][2].net = Text(<<"x">>)
    /\ Len(Ledger(1)) = 1
    /\ ~get_batch_lineage(an[1], "A").found
    /\ ~get_batch_lineage(an[1], "B").found


\* the batch names some row of the ledger file names as source or destination
Named(rows) ==
    ({rows[k].from_batch : k \in 1..Len(rows)} \cup {rows[k].to_batch : k \in 1..Len(rows)}) \ {""}

\* C11: for a batch name that no ingested record names as source or
\* destination, get_batch_lineage returns the absent result,
\* generate_lineage_report the 'not found' message and get_full_lineage_tree
\* a not_found leaf; the mapping never holds an entry for such a name,
\* whatever was queried before.
C11_LookupMiss ==
    /\ Batches(1) \subseteq Named(file[1])
    /\ (result.op = "get_batch_lineage" /\ result.arg \notin Named(file[1])) =>
          ~result.value.found
    /\ (result.op = "generate_lineage_report" /\ result.arg \notin Named(file[1])) =>
          result.value = NotFoundMessage(result.arg)
    /\ (tree.op = "get_full_lineage_tree" /\ tree.value.batch_name \notin Named(file[1])) =>
          tree.value = NotFoundLeaf(tree.value.batch_name)

\* C11 witness: the ledger names A and B alone; the report asked for C is the
\* 'not found' message, the tree of C is a not_found leaf, and the mapping
\* still holds A and B alone
C11_Witness ==
    /\ Built(1)
    /\ Named(file[1]) = {"A", "B"}
    /\ result.op = "generate_lineage_report" /\ result.arg = "C"
    /\ result.value = NotFoundMessage("C")
    /\ tree.op = "get_full_lineage_tree"
    /\ tree.value = NotFoundLeaf("C")
    /\ Batches(1) = {"A", "B"}


\* the value the query recorded in result returns when it is called again now
Requery ==
    CASE result.op = "get_batch_lineage" -> get_batch_lineage(an[result.run], result.arg)
      [] result.op = "get_all_on_hand_batches" -> get_all_on_hand_batches(an[result.run])
      [] result.op = "get_all_shipped_batches" -> get_all_shipped_batches(an[result.run])
      [] result.op = "generate_lineage_report" -> generate_lineage_report(an[result.run], result.arg)
      [] result.op = "export_lineage_to_csv" -> export_lineage_to_csv(an[result.run], result.arg)
      [] result.op = "export_transactions_to_csv" -> export_transactions_to_csv(an[result.run])
      [] result.op = "export_to_json" -> export_to_json(an[result.run])

\* C12: once a ledger is ingested no call of a query, of the report, of the
\* lineage tree or of an export changes the transaction list or any field of
\* any batch lineage (only ingestion changes the analyzer), and the result of
\* the last query is what the same query returns after any further calls.
C12_ReadOnly ==
    /\ [][(an[1].status = "new" /\ an'[1].status # "new") \/ an'[1] = an[1]]_vars
    /\ [](result.op \notin {"none", "load_from_csv"} => result.value = Requery)

\* C12 witness: on a built ledger with a cycle between A and B the lineage
\* tree of A was returned and then the JSON snapshot was exported
C12_Witness ==
    /\ Built(1)
    /\ Len(Ledger(1)) = 2
    /\ Batches(1) = {"A", "B"}
    /\ DictKeys(Lineage(1, "A").contributing_batches) = {"B"}
    /\ DictKeys(Lineage(1, "B").contributing_batches) = {"A"}
    /\ tree.op = "get_full_lineage_tree" /\ tree.value.batch_name = "A"
    /\ result.op = "export_to_json"
    /\ result.value.metadata.total_batches = 2


RECURSIVE Unfold(_, _)
\* the tree of batch_name below the given ancestors when every branch is
\* followed on its own: a batch among its ancestors is a cycle_detected leaf,
\* any other batch of the mapping is expanded in full
Unfold(batch_name, ancestors) ==
    IF batch_name \in ancestors THEN CycleLeaf(batch_name)
    ELSE IF batch_name \notin Batches(1) THEN NotFoundLeaf(batch_name)
    ELSE LET contrib == Lineage(1, batch_name).contributing_batches
         IN  [TreeNode(batch_name, Lineage(1, batch_name)) EXCEPT
                 !.contributing_batches =
                     [k \in 1..Len(contrib) |->
                         Unfold(contrib[k].k, ancestors \cup {batch_name})
                             @@ [gallons_contributed |-> contrib[k].v]]]

\* the tree held in the variable tree is the unfolding of its root batch
TreeIsUnfolding == tree.value = Unfold(tree.value.batch_name, {})

\* C13: cycle detection is per branch: the tree get_full_lineage_tree returns
\* is the unfolding in which a node is a cycle_detected leaf iff its batch is
\* one of its own ancestors, so a batch expanded under one child is expanded
\* again in full under a sibling child.
C13_PerBranchCycleDetection ==
    [][(tree' # tree /\ tree'.op = "get_full_lineage_tree") => TreeIsUnfolding']_vars

\* C13 witness: C has the contributors A and B, and B has the contributor A;
\* in the tree of C the batch A is expanded as a child of C and expanded again
\* below the sibling B
C13_Witness ==
    /\ Built(1)
    /\ tree.op = "get_full_lineage_tree"
    /\ tree.value.batch_name = "C" /\ tree.value.kind = "expanded"
    /\ Len(tree.value.contributing_batches) = 2
    /\ LET c1 == tree.value.contributing_batches[1]
           c2 == tree.value.contributing_batches[2]
       IN  /\ c1.batch_name = "A" /\ c1.kind = "expanded"
           /\ c2.batch_name = "B" /\ c2.kind = "expanded"
           /\ Len(c2.contributing_batches) = 1
           /\ c2.contributing_batches[1].batch_name = "A"
           /\ c2.contributing_batches[1].kind = "expanded"


\* record k of the ledger is a Transfer or Blend with a source and a destination
Movement(i, k) ==
    /\ Ledger(i)[k].op_type \in {"Transfer", "Blend"}
    /\ Ledger(i)[k].from_batch # ""
    /\ Ledger(i)[k].to_batch # ""

\* record k is in the destination's incoming list and in the source's outgoing
\* list, once each, and the source has left inventory
ListedAndLeft(i, k) ==
    LET source == Ledger(i)[k].from_batch
        destination == Ledger(i)[k].to_batch
        incoming == Lineage(i, destination).contributing_transactions
        outgoing == Lineage(i, source).outgoing_transactions
    IN  /\ Cardinality({j \in 1..Len(incoming) : incoming[j] = k}) = 1
        /\ Cardinality({j \in 1..Len(outgoing) : outgoing[j] = k}) = 1
        /\ Lineage(i, source).has_left_inventory

\* the net volume of record k is part of the contribution of its source to its
\* destination: the contribution is the sum over the records source -> destination
Contributed(i, k) ==
    LET source == Ledger(i)[k].from_batch
        destination == Ledger(i)[k].to_batch
        contrib == Lineage(i, destination).contributing_batches
    IN  /\ source \in DictKeys(contrib)
        /\ DictGet(contrib, source) = NetSum(i, Len(Ledger(i)), source, destination)

\* C14 as stated: every Transfer or Blend record with a source and a
\* destination has all four effects, whatever the two names are.
C14_AllFourEffects ==
    Built(1) =>
        \A k \in 1..Len(Ledger(1)) : Movement(1, k) => (Contributed(1, k) /\ ListedAndLeft(1, k))

\* C14 amended: every Transfer or Blend record with a source and a
\* destination is appended to the destination's incoming list and to the
\* source's outgoing list and sets has_left_inventory on the source; it adds
\* its net volume to the destination's contribution from the source when the
\* two names differ, and adds no contribution when they are the same batch.
C14_EffectsOfMovement ==
    Built(1) =>
        \A k \in 1..Len(Ledger(1)) :
            Movement(1, k) =>
                /\ ListedAndLeft(1, k)
                /\ IF Ledger(1)[k].from_batch # Ledger(1)[k].to_batch
                   THEN Contributed(1, k)
                   ELSE Ledger(1)[k].from_batch \notin
                            DictKeys(Lineage(1, Ledger(1)[k].to_batch).contributing_batches)

\* C14 witness: a Transfer of A into itself and a Blend A -> B were ingested;
\* A has left, holds both records as outgoing and the first as incoming but
\* has no contributor, and B holds the contribution 1 of A
C14_Witness ==
    /\ Built(1)
    /\ Len(Ledger(1)) = 2
    /\ Ledger(1)[1].op_type = "Transfer" /\ Contributes(1, 1, "A", "A")
    /\ Ledger(1)[2].op_type = "Blend" /\ Contributes(1, 2, "A", "B")
    /\ Lineage(1, "A").outgoing_transactions = <<1, 2>>
    /\ Lineage(1, "A").contributing_transactions = <<1>>
    /\ Lineage(1, "A").contributing_batches = <<>>
    /\ Lineage(1, "A").has_left_inventory
    /\ Lineage(1, "B").contributing_batches = <<[k |-> "A", v |-> 1]>>


RECURSIVE HasNotFound(_)
\* some node of the tree carries the not_found marker
HasNotFound(t) ==
    \/ t.kind = "not_found"
    \/ /\ t.kind = "expanded"
       /\ \E k \in 1..Len(t.contributing_batches) : HasNotFound(t.contributing_batches[k])

\* C15: the mapping has one entry per distinct non-empty name the ledger names
\* as source or destination, whatever the operation types, so every
\* contributor of every batch is itself a batch of the mapping, and the tree
\* get_full_lineage_tree returns for a batch that exists has no not_found node.
C15_ClosedGraph ==
    /\ Batches(1) = Named(file[1])
    /\ \A b \in Batches(1) : DictKeys(Lineage(1, b).contributing_batches) \subseteq Batches(1)
    /\ (tree.op = "get_full_lineage_tree" /\ tree.value.kind = "expanded") =>
          ~HasNotFound(tree.value)

\* C15 witness: C is named only as the declared source of an Adjustment into
\* B; C is a batch of the mapping and the tree of B expands C below B
C15_Witness ==
    /\ Built(1)
    /\ Len(Ledger(1)) = 1
    /\ Ledger(1)[1].op_type = "Adjustment" /\ Contributes(1, 1, "C", "B")
    /\ Batches(1) = {"B", "C"}
    /\ tree.op = "get_full_lineage_tree"
    /\ tree.value.batch_name = "B" /\ tree.value.kind = "expanded"
    /\ Len(tree.value.contributing_batches) = 1
    /\ tree.value.contributing_batches[1].batch_name = "C"
    /\ tree.value.contributing_batches[1].kind = "expanded"


RECURSIVE Ascending(_, _, _)
\* the members of the set S of positions between k and n, in increasing order
Ascending(S, k, n) ==
    IF k > n THEN <<>>
    ELSE (IF k \in S THEN <<k>> ELSE <<>>) \o Ascending(S, k + 1, n)

\* the records of the ledger that are incoming for batch_name
IncomingRecords(i, batch_name) ==
    {k \in 1..Len(Ledger(i)) :
        /\ Ledger(i)[k].op_type \in {"Transfer", "Blend", "Receipt", "Adjustment"}
        /\ Ledger(i)[k].to_batch = batch_name}

\* the records of the ledger that are outgoing for batch_name
OutgoingRecords(i, batch_name) ==
    {k \in 1..Len(Ledger(i)) :
        /\ Ledger(i)[k].op_type \in {"Transfer", "Blend", "Receipt"}
        /\ Ledger(i)[k].from_batch = batch_name}

\* C16: for every batch the incoming list is the Transfer, Blend, Receipt and
\* Adjustment records with that destination, in ledger order, and the outgoing
\* list is the Transfer, Blend and Receipt records with that source, in ledger
\* order; On-Hand, Adjustment and unknown-type records are in no outgoing list.
C16_ListsKeepLedgerOrder ==
    Built(1) =>
        \A b \in Batches(1) :
            /\ Lineage(1, b).contributing_transactions =
                    Ascending(IncomingRecords(1, b), 1, Len(Ledger(1)))
            /\ Lineage(1, b).outgoing_transactions =
                    Ascending(OutgoingRecords(1, b), 1, Len(Ledger(1)))
            /\ \A k \in Range(Lineage(1, b).outgoing_transactions) :
                    Ledger(1)[k].op_type \in {"Transfer", "Blend", "Receipt"}

\* C16 witness: a Transfer and then a Receipt A -> B were ingested; both are in
\* the incoming list of B and in the outgoing list of A, the Transfer first
C16_Witness ==
    /\ Built(1)
    /\ Len(Ledger(1)) = 2
    /\ Ledger(1)[1].op_type = "Transfer" /\ Contributes(1, 1, "A", "B")
    /\ Ledger(1)[2].op_type = "Receipt" /\ Contributes(1, 2, "A", "B")
    /\ Lineage(1, "B").contributing_transactions = <<1, 2>>
    /\ Lineage(1, "A").outgoing_transactions = <<1, 2>>


\* the mapping of run i when the second pass of _build_lineage has handled the
\* first n records of the ledger
DuringBuild(i, n) ==
    populate(create_lineages(<<>>, [j \in 1..Len(an[i].batch_lineages) |-> an[i].batch_lineages[j].k], 1),
             SubSeq(Ledger(i), 1, n), 1)

\* no lineage of the mapping d names its own batch or the empty name as a
\* contributor
NoSelfContributor(d) ==
    \A j \in 1..Len(d) :
        /\ d[j].k \notin DictKeys(d[j].v.contributing_batches)
        /\ "" \notin DictKeys(d[j].v.contributing_batches)

RECURSIVE HasSelfCycle(_)
\* some node of the tree has a cycle_detected child for its own batch
HasSelfCycle(t) ==
    /\ t.kind = "expanded"
    /\ \E k \in 1..Len(t.contributing_batches) :
          \/ /\ t.contributing_batches[k].kind = "cycle_detected"
             /\ t.contributing_batches[k].batch_name = t.batch_name
          \/ HasSelfCycle(t.contributing_batches[k])

\* C17: after every record the second pass handles, and when ingestion is
\* done, no batch has itself or the empty name among its contributors; a
\* record into its own source batch or without a source is still in the
\* destination's incoming list; no tree get_full_lineage_tree returns has a
\* cycle_detected node directly below a node of the same batch.
C17_NoSelfContribution ==
    /\ Built(1) =>
          /\ DuringBuild(1, Len(Ledger(1))) = an[1].batch_lineages
          /\ \A n \in 0..Len(Ledger(1)) : NoSelfContributor(DuringBuild(1, n))
          /\ \A k \in 1..Len(Ledger(1)) :
                (Ledger(1)[k].from_batch \in {"", Ledger(1)[k].to_batch}) =>
                    k \in IncomingRecords(1, Ledger(1)[k].to_batch)
                    /\ k \in Range(Lineage(1, Ledger(1)[k].to_batch).contributing_transactions)
    /\ tree.op = "get_full_lineage_tree" => ~HasSelfCycle(tree.value)

\* C17 witness: a Transfer of A into itself and a Receipt into A without a
\* source were ingested; both are in the incoming list of A, A has no
\* contributor, and the tree of A has no child
C17_Witness ==
    /\ Built(1)
    /\ Len(Ledger(1)) = 2
    /\ Contributes(1, 1, "A", "A") /\ Contributes(1, 2, "", "A")
    /\ Lineage(1, "A").contributing_transactions = <<1, 2>>
    /\ Lineage(1, "A").contributing_batches = <<>>
    /\ tree.op = "get_full_lineage_tree"
    /\ tree.value.batch_name = "A" /\ tree.value.kind = "expanded"
    /\ tree.value.contributing_batches = <<>>


\* C18: an analyzer that loaded one ledger after another holds the transaction
\* list and, batch by batch, the lineages (contributions, lists, volume and
\* flags) of a fresh analyzer that loaded the rows of all of them at once: no
\* record is applied twice.
C18_ReloadIsConcatenation ==
    (Built(1) /\ Built(2) /\ file[1] = file[2]) =>
        /\ Ledger(1) = Ledger(2)
        /\ Batches(1) = Batches(2)
        /\ \A b \in Batches(1) : Lineage(1, b) = Lineage(2, b)

\* C18 witness: analyzer 1 holds three rows, more than a first ledger has, with
\* the Transfer A -> B of 1 gallon first and the one of 2 gallons later; the
\* fresh analyzer 2 loaded the three rows at once; in both B holds 3 gallons
\* from A
C18_Witness ==
    /\ Built(1) /\ Built(2)
    /\ file[1] = file[2]
    /\ Len(file[1]) = 3 /\ Len(file[1]) > MaxFirstRows
    /\ Contributes(1, 1, "A", "B") /\ Ledger(1)[1].net = 1
    /\ \E k \in 2..3 : Contributes(1, k, "A", "B") /\ Ledger(1)[k].net = 2
    /\ DictGet(Lineage(1, "B").contributing_batches, "A") = 3
    /\ DictGet(Lineage(2, "B").contributing_batches, "A") = 3


RECURSIVE NetMagnitude(_, _, _)
\* sum of the magnitudes of the net volumes of the records 1..k that add a
\* contribution to batch b
NetMagnitude(i, k, b) ==
    IF k = 0 THEN 0
    ELSE NetMagnitude(i, k - 1, b)
         + (IF k \in IncomingRecords(i, b)
            THEN (IF Ledger(i)[k].net < 0 THEN 0 - Ledger(i)[k].net ELSE Ledger(i)[k].net)
            ELSE 0)

\* the ledger file of run j holds the rows of the file of run i in some order
IsPermutation(i, j) ==
    /\ Len(file[i]) = Len(file[j])
    /\ \E perm \in Perms(1..Len(file[i])) : file[j] = Permuted(file[i], perm)

\* the On-Hand rows of the ledger file of run i, in their order
OnHandRows(i) ==
    LET IsOnHand(row) == row.op_type = "On-Hand"
    IN  SelectSeq(file[i], IsOnHand)

\* the records a transaction list of run i refers to, by content
Contents(i, list) == [k \in 1..Len(list) |-> transaction_to_dict(Ledger(i)[list[k]])]

\* the two sequences hold the same elements the same number of times
SameMultiset(s, t) ==
    \A x \in Range(s) \cup Range(t) :
        Cardinality({k \in 1..Len(s) : s[k] = x}) = Cardinality({k \in 1..Len(t) : t[k] = x})

\* batch b has in runs i and j the same contributors, flags and multisets of
\* incoming and outgoing transactions
SameGraphAt(i, j, b) ==
    /\ DictKeys(Lineage(i, b).contributing_batches) = DictKeys(Lineage(j, b).contributing_batches)
    /\ Lineage(i, b).is_on_hand = Lineage(j, b).is_on_hand
    /\ Lineage(i, b).has_left_inventory = Lineage(j, b).has_left_inventory
    /\ SameMultiset(Contents(i, Lineage(i, b).contributing_transactions),
                    Contents(j, Lineage(j, b).contributing_transactions))
    /\ SameMultiset(Contents(i, Lineage(i, b).outgoing_transactions),
                    Contents(j, Lineage(j, b).outgoing_transactions))

\* batch b has in runs i and j the same cumulative weight for every contributor
SameWeightsAt(i, j, b) ==
    \A source \in DictKeys(Lineage(i, b).contributing_batches) :
        DictGet(Lineage(i, b).contributing_batches, source)
            = DictGet(Lineage(j, b).contributing_batches, source)

\* the net volumes of the records into b of run i add up without rounding in
\* any order: the sum of their magnitudes has an exact float
ExactSumsAt(i, b) ==
    LET total == NetMagnitude(i, Len(Ledger(i)), b)
    IN  total < 2 ^ MantissaBits

\* C19 as stated: two runs on ledgers that are permutations of each other give
\* every batch the same contributors with the same cumulative weights, the
\* same flags and the same multisets of incoming and outgoing transactions,
\* and the same current_volume when the On-Hand records are in the same order.
C19_OrderIndependent ==
    (Built(1) /\ Built(2) /\ IsPermutation(1, 2)) =>
        /\ Batches(1) = Batches(2)
        /\ \A b \in Batches(1) :
              /\ SameGraphAt(1, 2, b)
              /\ SameWeightsAt(1, 2, b)
              /\ OnHandRows(1) = OnHandRows(2) =>
                    Lineage(1, b).current_volume = Lineage(2, b).current_volume

\* C19 amended: as stated for the contributors, the flags, the multisets of
\* transactions and current_volume; the cumulative weights are float sums taken
\* in each ledger's own order, equal in the two runs when the net volumes of
\* the records into the batch add up without rounding.
C19_OrderIndependentUpToRounding ==
    (Built(1) /\ Built(2) /\ IsPermutation(1, 2)) =>
        /\ Batches(1) = Batches(2)
        /\ \A b \in Batches(1) :
              /\ SameGraphAt(1, 2, b)
              /\ ExactSumsAt(1, b) => SameWeightsAt(1, 2, b)
              /\ OnHandRows(1) = OnHandRows(2) =>
                    Lineage(1, b).current_volume = Lineage(2, b).current_volume

\* C19 witness: run 1 loaded On-Hand B with 1 gallon, Transfer A -> B of 1
\* gallon and On-Hand B with 2 gallons; run 2 loaded the Transfer last; in both
\* B is on hand with 2 gallons and holds 1 gallon from A
C19_Witness ==
    /\ Built(1) /\ Built(2)
    /\ Len(file[1]) = 3
    /\ file[2] = Permuted(file[1], <<1, 3, 2>>)
    /\ file[1][1].op_type = "On-Hand" /\ file[1][3].op_type = "On-Hand"
    /\ file[1][2].op_type = "Transfer"
    /\ file[1][1].net # file[1][3].net
    /\ Lineage(1, "B").current_volume = 2 /\ Lineage(2, "B").current_volume = 2
    /\ DictGet(Lineage(1, "B").contributing_batches, "A") = 1
    /\ DictGet(Lineage(2, "B").contributing_batches, "A") = 1

====
